---- MODULE Spec2Model ----
(***************************************************************************)
(* Purchase-order extractor: the block segmenter (extract_item_blocks),    *)
(* the block field parser (parse_block), the description cleaner           *)
(* (clean_description) and the two batch loops (extractor.main and         *)
(* streamlit_app.process_files).                                           *)
(*                                                                         *)
(* A Python str is modelled as a sequence of one-character strings, so     *)
(* that strip, split, startswith and the regular expressions are computed  *)
(* character by character.  The empty str is << >>.                        *)
(***************************************************************************)
EXTENDS Integers, Sequences, FiniteSets, TLC

\* ---------------------------------------------------------------------------
\* Bounds of the model
\* ---------------------------------------------------------------------------
MaxLines == 5
MaxBlockLen == 4
MaxWords == 7
MaxDocs == 3

\* ---------------------------------------------------------------------------
\* Literals of the source
\* ---------------------------------------------------------------------------
stop_marker == <<"▌","T","a","x"," ","D","e","t","a","i","l","s">>
START_MARKER == <<"T","a","x","%","T","a","x","%">>
TAX_LINE == <<"T","a","x"," ","%">>
DELIVERY_DATE_LABEL == <<"D","e","l","i","v","e","r","y"," ","D","a","t","e",":">>
ITEM_CODE_LABEL == <<"I","t","e","m"," ","C","o","d","e",":">>
EACH == <<"E","a","c","h">>
ZERO_LINE == <<"0",".","0","0","0","0">>
PAGE == <<"p","a","g","e">>
REV_MIXED == <<"R","e","v">>
REV_UPPER == <<"R","E","V">>
EMPTY == << >>

\* ---------------------------------------------------------------------------
\* str primitives
\* ---------------------------------------------------------------------------
UPPER == <<"A","B","C","D","E","F","G","H","I","J","K","L","M","N","O","P","Q","R","S","T","U","V","W","X","Y","Z">>
LOWER == <<"a","b","c","d","e","f","g","h","i","j","k","l","m","n","o","p","q","r","s","t","u","v","w","x","y","z">>
DIGITS == <<"0","1","2","3","4","5","6","7","8","9">>

Range(f) == {f[i] : i \in DOMAIN f}

IsSpace(c) == c \in {" ", "\t"}
IsDigit(c) == c \in Range(DIGITS)
IsWordChar(c) == c \in Range(UPPER) \cup Range(LOWER) \cup Range(DIGITS) \cup {"_"}

LowerChar(c) == IF c \in Range(UPPER) THEN LOWER[CHOOSE i \in DOMAIN UPPER : UPPER[i] = c] ELSE c
Lower(s) == [i \in DOMAIN s |-> LowerChar(s[i])]

\* s.strip()
Strip(s) ==
    LET keep == {i \in DOMAIN s : ~IsSpace(s[i])}
    IN IF keep = {} THEN EMPTY
       ELSE SubSeq(s, CHOOSE i \in keep : \A j \in keep : i <= j,
                      CHOOSE i \in keep : \A j \in keep : j <= i)

\* s.replace(" ", "")
RemoveBlanks(s) == SelectSeq(s, LAMBDA c : c # " ")

\* s.startswith(p)
StartsWith(s, p) == Len(s) >= Len(p) /\ SubSeq(s, 1, Len(p)) = p

\* re.search(p, s) for a literal p, ignoring case
SearchIgnoreCase(p, s) ==
    \E i \in 1..(Len(s) - Len(p) + 1) : Lower(SubSeq(s, i, i + Len(p) - 1)) = Lower(p)

AllDigits(s) == Len(s) > 0 /\ \A i \in DOMAIN s : IsDigit(s[i])

\* re.match(r"\d{1,2}/\d{1,2}/\d{4}", s): anchored at the start only
MatchDate(s) ==
    \E a \in 1..2 : \E b \in 1..2 :
        /\ Len(s) >= a + b + 6
        /\ AllDigits(SubSeq(s, 1, a))
        /\ s[a + 1] = "/"
        /\ AllDigits(SubSeq(s, a + 2, a + 1 + b))
        /\ s[a + b + 2] = "/"
        /\ AllDigits(SubSeq(s, a + b + 3, a + b + 6))

\* re.match(r"^\d+\.\d+$", s)
MatchFloat(s) ==
    \E d \in DOMAIN s :
        /\ s[d] = "."
        /\ AllDigits(SubSeq(s, 1, d - 1))
        /\ AllDigits(SubSeq(s, d + 1, Len(s)))

\* re.search(r"\d+\.\d+", s)
SearchFloat(s) ==
    \E i \in 1..(Len(s) - 2) : IsDigit(s[i]) /\ s[i + 1] = "." /\ IsDigit(s[i + 2])

\* re.search(r"\bEach\b", s, flags=re.IGNORECASE)
SearchEachWord(s) ==
    \E i \in 1..(Len(s) - 3) :
        /\ Lower(SubSeq(s, i, i + 3)) = Lower(EACH)
        /\ (i = 1 \/ ~IsWordChar(s[i - 1]))
        /\ (i + 3 = Len(s) \/ ~IsWordChar(s[i + 4]))

\* re.match(r"^(Rev|REV)\s+\w+", s)
MatchRev(s) ==
    /\ (StartsWith(s, REV_MIXED) \/ StartsWith(s, REV_UPPER))
    /\ \E k \in 5..Len(s) :
          /\ \A j \in 4..(k - 1) : IsSpace(s[j])
          /\ IsWordChar(s[k])

\* " ".join(parts)
RECURSIVE Join(_)
Join(parts) ==
    IF Len(parts) = 0 THEN EMPTY
    ELSE IF Len(parts) = 1 THEN parts[1]
    ELSE parts[1] \o <<" ">> \o Join(Tail(parts))

\* s.split(): the maximal runs of non-whitespace characters
RECURSIVE Split(_)
Split(s) ==
    LET t == Strip(s)
    IN IF t = EMPTY THEN << >>
       ELSE LET sp == {i \in DOMAIN t : IsSpace(t[i])}
            IN IF sp = {} THEN <<t>>
               ELSE LET k == CHOOSE i \in sp : \A j \in sp : i <= j
                    IN <<SubSeq(t, 1, k - 1)>> \o Split(SubSeq(t, k + 1, Len(t)))

\* ---------------------------------------------------------------------------
\* float(), round(_, 4) and str() on the decimal lines of a block
\* ---------------------------------------------------------------------------
DigitVal(c) == (CHOOSE i \in DOMAIN DIGITS : DIGITS[i] = c) - 1

RECURSIVE IntVal(_)
IntVal(ds) == IF Len(ds) = 0 THEN 0 ELSE 10 * IntVal(SubSeq(ds, 1, Len(ds) - 1)) + DigitVal(ds[Len(ds)])

RECURSIVE Pow10(_)
Pow10(e) == IF e = 0 THEN 1 ELSE 10 * Pow10(e - 1)

RECURSIVE DropTrailingZeros(_)
DropTrailingZeros(ds) ==
    IF Len(ds) > 0 /\ ds[Len(ds)] = "0" THEN DropTrailingZeros(SubSeq(ds, 1, Len(ds) - 1)) ELSE ds

\* float(s) for s matching \d+\.\d+ : the value n / 10^e
Float(s) ==
    LET d == CHOOSE i \in DOMAIN s : s[i] = "."
        frac == DropTrailingZeros(SubSeq(s, d + 1, Len(s)))
    IN [n |-> IntVal(SubSeq(s, 1, d - 1) \o frac), e |-> Len(frac)]

FloatLess(x, y) == x.n * Pow10(y.e) < y.n * Pow10(x.e)
FloatIsZero(x) == x.n = 0

\* round(total / price, 4), in ten-thousandths, ties to even
RoundQuot4(total, price) ==
    LET num == total.n * Pow10(price.e) * 10000
        den == price.n * Pow10(total.e)
        fl == num \div den
        r == num % den
    IN IF 2 * r < den THEN fl
       ELSE IF 2 * r > den THEN fl + 1
       ELSE IF fl % 2 = 0 THEN fl ELSE fl + 1

RECURSIVE IntStr(_)
IntStr(k) == IF k < 10 THEN <<DIGITS[k + 1]>> ELSE IntStr(k \div 10) \o <<DIGITS[(k % 10) + 1]>>

\* str(x) of a float x given in ten-thousandths: '2.0', '1.0789'
FloatStr(k) ==
    LET f == k % 10000
        four == <<DIGITS[(f \div 1000) + 1], DIGITS[((f \div 100) % 10) + 1],
                  DIGITS[((f \div 10) % 10) + 1], DIGITS[(f % 10) + 1]>>
        cut == DropTrailingZeros(four)
    IN IntStr(k \div 10000) \o <<".">> \o (IF cut = EMPTY THEN <<"0">> ELSE cut)

\* ---------------------------------------------------------------------------
\* clean_description
\* ---------------------------------------------------------------------------
\* the loop "for length in range(len(words)//2, 0, -1)" from `length` downwards
RECURSIVE CleanFrom(_, _, _)
CleanFrom(desc, words, length) ==
    IF length < 1 THEN desc
    ELSE LET start_sub == Join(SubSeq(words, 1, length))
             end_sub == Join(SubSeq(words, Len(words) - length + 1, Len(words)))
             middle == Join(SubSeq(words, length + 1, Len(words) - length))
         IN IF Lower(start_sub) = Lower(end_sub) /\ (SearchEachWord(middle) \/ SearchFloat(middle))
            THEN Strip(IF Len(end_sub) > Len(start_sub) THEN end_sub ELSE start_sub)
            ELSE CleanFrom(desc, words, length - 1)

clean_description(desc0) ==
    LET desc == Strip(desc0)
    IN IF desc = EMPTY THEN EMPTY
       ELSE CleanFrom(desc, Split(desc), Len(Split(desc)) \div 2)

\* ---------------------------------------------------------------------------
\* parse_block
\* ---------------------------------------------------------------------------
\* position of the first element of a non-empty set of positions, else 0
FirstOf(S) == IF S = {} THEN 0 ELSE CHOOSE i \in S : \A j \in S : i <= j
LastOf(S) == IF S = {} THEN 0 ELSE CHOOSE i \in S : \A j \in S : j <= i

\* variant: min() instead of max()
RECURSIVE MinByFloat(_, _, _)
MinByFloat(float_lines, best, i) ==
    IF i > Len(float_lines) THEN best
    ELSE MinByFloat(float_lines,
                    IF FloatLess(Float(float_lines[i]), Float(best)) THEN float_lines[i] ELSE best,
                    i + 1)

\* variant: the scan replaces the best on ties too, so the last maximal wins
RECURSIVE MaxByFloatLast(_, _, _)
MaxByFloatLast(float_lines, best, i) ==
    IF i > Len(float_lines) THEN best
    ELSE MaxByFloatLast(float_lines,
                        IF FloatLess(Float(float_lines[i]), Float(best)) THEN best ELSE float_lines[i],
                        i + 1)

\* max(float_lines, key=lambda x: float(x)): the scan keeps the element seen
\* first and replaces it only by a strictly greater one
RECURSIVE MaxByFloat(_, _, _)
MaxByFloat(float_lines, best, i) ==
    IF i > Len(float_lines) THEN best
    ELSE MaxByFloat(float_lines,
                    IF FloatLess(Float(best), Float(float_lines[i])) THEN float_lines[i] ELSE best,
                    i + 1)

\* variant: float(price) / float(total)
QuantityTryInverted(Price, Total) ==
    IF Price # EMPTY /\ Total # EMPTY
    THEN IF FloatIsZero(Float(Total))
         THEN [raised |-> TRUE, value |-> EMPTY]
         ELSE [raised |-> FALSE, value |-> FloatStr(RoundQuot4(Float(Price), Float(Total)))]
    ELSE [raised |-> FALSE, value |-> EMPTY]

\* the body of the try: of the quantity calculation; raised is the
\* ZeroDivisionError of float(total) / float(price)
QuantityTry(Price, Total) ==
    IF Price # EMPTY /\ Total # EMPTY
    THEN IF FloatIsZero(Float(Price))
         THEN [raised |-> TRUE, value |-> EMPTY]
         ELSE [raised |-> FALSE, value |-> FloatStr(RoundQuot4(Float(Total), Float(Price)))]
    ELSE [raised |-> FALSE, value |-> EMPTY]

\* try: ... except Exception: data["Quantity"] = ""
QuantityOf(Price, Total) ==
    LET t == QuantityTry(Price, Total)
    IN IF t.raised THEN EMPTY ELSE t.value

DescriptionLines(blk, item_code_index, rev_index) ==
    LET ints == {j \in 1..(item_code_index - 1) : AllDigits(Strip(blk[j]))}
        int_index == LastOf(ints)
        desc_lines == IF rev_index # 0 THEN SubSeq(blk, rev_index + 1, item_code_index - 1)
                      ELSE IF int_index # 0 THEN SubSeq(blk, int_index + 1, item_code_index - 1)
                      ELSE SubSeq(blk, 1, item_code_index - 1)
    IN SelectSeq(desc_lines, LAMBDA l : ~StartsWith(Strip(l), ITEM_CODE_LABEL) /\ Strip(l) # EMPTY)

\* variant: block_lines[i] instead of block_lines[i+1]
DeliveryDateOfLabelLine(blk) ==
    LET dd == FirstOf({i \in 1..Len(blk) : StartsWith(blk[i], DELIVERY_DATE_LABEL) /\ i + 1 <= Len(blk)})
    IN IF dd = 0 THEN EMPTY ELSE Strip(blk[dd])

\* the loop that sets data["Delivery Date"]: the line after the first
\* 'Delivery Date:' line that has a line after it
DeliveryDateOf(blk) ==
    LET dd == FirstOf({i \in 1..Len(blk) : StartsWith(blk[i], DELIVERY_DATE_LABEL) /\ i + 1 <= Len(blk)})
    IN IF dd = 0 THEN EMPTY ELSE Strip(blk[dd + 1])

\* positions are 1-based; 0 stands for the source's -1 (not found).  The
\* "except" around max() is not reached: every element of float_lines
\* matches \d+\.\d+, which float() accepts.
parse_block(blk) ==
    LET n == Len(blk)
        ic == FirstOf({i \in 1..n : StartsWith(blk[i], ITEM_CODE_LABEL) /\ i + 1 <= n})
        item_code_index == IF ic = 0 THEN 0 ELSE ic + 1
        float_lines == SelectSeq(blk, LAMBDA ln : MatchFloat(ln) /\ ln # ZERO_LINE)
        Price == IF float_lines # << >> THEN float_lines[1] ELSE EMPTY
        Total == IF float_lines # << >> THEN MaxByFloat(float_lines, float_lines[1], 2) ELSE EMPTY
        rev_index == FirstOf({i \in 1..n : MatchRev(blk[i])})
    IN [k \in {"Item_Code", "Delivery Date", "Description", "Item Details",
               "UoM(optional)", "Quantity", "Price", "Total"} |->
          CASE k = "Item_Code" -> IF ic = 0 THEN EMPTY ELSE Strip(blk[ic + 1])
            [] k = "Delivery Date" -> DeliveryDateOf(blk)
            [] k = "Description" ->
                 IF item_code_index = 0 THEN EMPTY
                 ELSE clean_description(Strip(Join(DescriptionLines(blk, item_code_index, rev_index))))
            [] k = "Item Details" -> IF rev_index = 0 THEN EMPTY ELSE blk[rev_index]
            [] k = "UoM(optional)" -> IF \E i \in 1..n : blk[i] = EACH THEN EACH ELSE EMPTY
            [] k = "Quantity" -> QuantityOf(Price, Total)
            [] k = "Price" -> Price
            [] k = "Total" -> Total]

\* ---------------------------------------------------------------------------
\* State
\* ---------------------------------------------------------------------------
VARIABLES
    \* extract_item_blocks
    pdf_path,            \* the argument
    lines,               \* the lines of full_text.splitlines() iterated so far
    inside_table, blocks, current_block, waiting_for_date, prev_line, start_marker_found,
    pc,                  \* "loop" while iterating, "done" after the return, "off" when unused
    result,              \* the returned value
    current_src,         \* history: for each entry of current_block, the line it was read from
    block_src,           \* history: for each entry of blocks, the lines of its block
    dropped_src,         \* history: the lines of each block discarded by the page rule
    \* parse_block called on its own
    block_lines, data, ppc,
    \* clean_description applied twice
    desc, cleaned, recleaned, cpc,
    \* the batch loops of extractor.main and streamlit_app.process_files
    driver, pdf_files, file_idx, all_data, written, bpc,
    row_src              \* history: for each row of all_data, the position of its file in pdf_files

segVars == <<pdf_path, lines, inside_table, blocks, current_block, waiting_for_date, prev_line,
             start_marker_found, pc, result, current_src, block_src, dropped_src>>
parseVars == <<block_lines, data, ppc>>
cleanVars == <<desc, cleaned, recleaned, cpc>>
batchVars == <<driver, pdf_files, file_idx, all_data, written, bpc, row_src>>
vars == <<segVars, parseVars, cleanVars, batchVars>>

NoData == [k \in {"Item_Code", "Delivery Date", "Description", "Item Details",
                  "UoM(optional)", "Quantity", "Price", "Total"} |-> EMPTY]
NoResult == [error |-> FALSE, name |-> EMPTY, blocks |-> << >>]

SegOff ==
    /\ pdf_path = EMPTY /\ lines = << >> /\ inside_table = FALSE /\ blocks = << >>
    /\ current_block = << >> /\ waiting_for_date = FALSE /\ prev_line = EMPTY
    /\ start_marker_found = FALSE /\ pc = "off" /\ result = NoResult
    /\ current_src = << >> /\ block_src = << >> /\ dropped_src = << >>
ParseOff == block_lines = << >> /\ data = NoData /\ ppc = "off"
CleanOff == desc = EMPTY /\ cleaned = EMPTY /\ recleaned = EMPTY /\ cpc = "off"
BatchOff ==
    /\ driver = "none" /\ pdf_files = << >> /\ file_idx = 0 /\ all_data = << >>
    /\ written = << >> /\ row_src = << >> /\ bpc = "off"

\* ---------------------------------------------------------------------------
\* Documents fed to extract_item_blocks
\* ---------------------------------------------------------------------------
L_Date == <<"0","1","/","0","2","/","2","0","2","4">>
L_DateSp == <<" ","0","1","/","0","2","/","2","0","2","4">>
L_Date2 == <<"3","/","4","/","2","0","2","5">>
L_TaxOne == <<"T","a","x"," ","%"," ","T","a","x"," ","%">>
L_Page == <<"P","a","g","e"," ","2"," ","o","f"," ","5">>
L_ABC123 == <<"A","B","C","1","2","3">>
L_10_5000 == <<"1","0",".","5","0","0","0">>
L_21_0000 == <<"2","1",".","0","0","0","0">>
L_StopTail == <<"▌","T","a","x"," ","D","e","t","a","i","l","s"," ","5","%">>
PATH_A == <<"i","n","/","p","o","1",".","p","d","f">>
PATH_B == <<"p","o","2",".","p","d","f">>
NAME_A == <<"p","o","1",".","p","d","f">>

PdfPaths == {PATH_A, PATH_B}
Vocabulary == {TAX_LINE, L_TaxOne, stop_marker, DELIVERY_DATE_LABEL, L_DateSp, L_Page, L_10_5000}

ScenarioA == <<TAX_LINE, TAX_LINE, DELIVERY_DATE_LABEL, L_Date, ITEM_CODE_LABEL, L_ABC123,
               L_10_5000, L_21_0000, EACH, L_StopTail>>
TwoRegions == <<TAX_LINE, TAX_LINE, EACH, DELIVERY_DATE_LABEL, L_Date, L_StopTail,
                TAX_LINE, TAX_LINE, DELIVERY_DATE_LABEL, L_Date2, L_StopTail>>
TwoRegionsLeftover == <<TAX_LINE, TAX_LINE, L_Page, L_StopTail,
                        TAX_LINE, TAX_LINE, DELIVERY_DATE_LABEL, L_Date>>
TwoRegionsPending == <<TAX_LINE, TAX_LINE, DELIVERY_DATE_LABEL, L_StopTail,
                       TAX_LINE, TAX_LINE, L_Date>>
PageThenItem == <<TAX_LINE, TAX_LINE, L_Page, DELIVERY_DATE_LABEL, L_Date,
                  TAX_LINE, TAX_LINE, L_10_5000, DELIVERY_DATE_LABEL, L_Date2>>
ScenarioDocuments == {ScenarioA, TwoRegions, TwoRegionsLeftover, TwoRegionsPending, PageThenItem}

\* the line that may come next: any line of the vocabulary while the document
\* is short, or the next line of one of the scenario documents
NextLines ==
    {l \in Vocabulary : Len(lines) < MaxLines /\ \A i \in DOMAIN lines : lines[i] \in Vocabulary}
    \cup {d[Len(lines) + 1] : d \in {e \in ScenarioDocuments :
                                       Len(e) > Len(lines) /\ SubSeq(e, 1, Len(lines)) = lines}}

\* os.path.basename(pdf_path)
Basename(path) ==
    LET slashes == {i \in DOMAIN path : path[i] = "/"}
    IN SubSeq(path, LastOf(slashes) + 1, Len(path))

\* ---------------------------------------------------------------------------
\* extract_item_blocks: one action per path through the body of the loop
\* ---------------------------------------------------------------------------
SegInit ==
    /\ pdf_path \in PdfPaths
    /\ lines = << >>
    /\ inside_table = FALSE
    /\ blocks = << >>
    /\ current_block = << >>
    /\ waiting_for_date = FALSE
    /\ prev_line = EMPTY
    /\ start_marker_found = FALSE
    /\ pc = "loop"
    /\ result = NoResult
    /\ current_src = << >> /\ block_src = << >> /\ dropped_src = << >>
    /\ ParseOff /\ CleanOff /\ BatchOff

\* not inside_table, the start marker is completed by this line
FindStart(line) ==
    /\ pc = "loop" /\ ~inside_table
    /\ RemoveBlanks(prev_line \o Strip(line)) = START_MARKER
    /\ lines' = Append(lines, line)
    /\ inside_table' = TRUE
    /\ prev_line' = EMPTY
    /\ start_marker_found' = TRUE
    /\ UNCHANGED <<parseVars, cleanVars, batchVars>>
    /\ UNCHANGED <<pdf_path, blocks, current_block, waiting_for_date, pc, result,
                   current_src, block_src, dropped_src>>

\* not inside_table, no start marker: the line becomes prev_line
SeekStart(line) ==
    /\ pc = "loop" /\ ~inside_table
    /\ RemoveBlanks(prev_line \o Strip(line)) # START_MARKER
    /\ lines' = Append(lines, line)
    /\ prev_line' = Strip(line)
    /\ UNCHANGED <<parseVars, cleanVars, batchVars>>
    /\ UNCHANGED <<pdf_path, inside_table, blocks, current_block, waiting_for_date,
                   start_marker_found, pc, result, current_src, block_src, dropped_src>>

\* inside_table, the line starts with the stop marker
StopMarker(line) ==
    /\ pc = "loop" /\ inside_table
    /\ StartsWith(Strip(line), stop_marker)
    /\ lines' = Append(lines, line)
    /\ inside_table' = FALSE
    /\ UNCHANGED <<parseVars, cleanVars, batchVars>>
    /\ UNCHANGED <<pdf_path, blocks, current_block, waiting_for_date, prev_line,
                   start_marker_found, pc, result, current_src, block_src, dropped_src>>

\* inside_table, a 'Delivery Date:' line: collected, then wait for the date
DeliveryLabel(line) ==
    /\ pc = "loop" /\ inside_table
    /\ ~StartsWith(Strip(line), stop_marker)
    /\ StartsWith(Strip(line), DELIVERY_DATE_LABEL)
    /\ lines' = Append(lines, line)
    /\ current_block' = Append(current_block, Strip(line))
    /\ current_src' = Append(current_src, Len(lines) + 1)
    /\ waiting_for_date' = TRUE
    /\ UNCHANGED <<parseVars, cleanVars, batchVars>>
    /\ UNCHANGED <<pdf_path, inside_table, blocks, prev_line, start_marker_found, pc, result,
                   block_src, dropped_src>>

\* inside_table, any other line that does not complete a block: collected
Collect(line) ==
    /\ pc = "loop" /\ inside_table
    /\ ~StartsWith(Strip(line), stop_marker)
    /\ ~StartsWith(Strip(line), DELIVERY_DATE_LABEL)
    /\ ~(waiting_for_date /\ MatchDate(Strip(line)))
    /\ lines' = Append(lines, line)
    /\ current_block' = Append(current_block, Strip(line))
    /\ current_src' = Append(current_src, Len(lines) + 1)
    /\ UNCHANGED <<parseVars, cleanVars, batchVars>>
    /\ UNCHANGED <<pdf_path, inside_table, blocks, waiting_for_date, prev_line,
                   start_marker_found, pc, result, block_src, dropped_src>>

\* the block as it stands when a date line arrives while waiting_for_date:
\* the line is appended on collection and once more as "the date line"
CompletedBlock(line) == Append(Append(current_block, Strip(line)), Strip(line))
CompletedSrc == Append(Append(current_src, Len(lines) + 1), Len(lines) + 1)
HasPage(block) == \E i \in DOMAIN block : SearchIgnoreCase(PAGE, block[i])

\* variant: the buffer is not emptied when the block is skipped
DropPageBlockKeepBuffer(line) ==
    /\ pc = "loop" /\ inside_table
    /\ ~StartsWith(Strip(line), stop_marker)
    /\ ~StartsWith(Strip(line), DELIVERY_DATE_LABEL)
    /\ waiting_for_date /\ MatchDate(Strip(line))
    /\ HasPage(CompletedBlock(line))
    /\ lines' = Append(lines, line)
    /\ current_block' = CompletedBlock(line)
    /\ current_src' = CompletedSrc
    /\ waiting_for_date' = FALSE
    /\ inside_table' = FALSE
    /\ prev_line' = EMPTY
    /\ dropped_src' = Append(dropped_src, CompletedSrc)
    /\ UNCHANGED <<parseVars, cleanVars, batchVars>>
    /\ UNCHANGED <<pdf_path, blocks, start_marker_found, pc, result, block_src>>

\* the completed block contains 'page': skip and reset
DropPageBlock(line) ==
    /\ pc = "loop" /\ inside_table
    /\ ~StartsWith(Strip(line), stop_marker)
    /\ ~StartsWith(Strip(line), DELIVERY_DATE_LABEL)
    /\ waiting_for_date /\ MatchDate(Strip(line))
    /\ HasPage(CompletedBlock(line))
    /\ lines' = Append(lines, line)
    /\ current_block' = << >>
    /\ current_src' = << >>
    /\ waiting_for_date' = FALSE
    /\ inside_table' = FALSE
    /\ prev_line' = EMPTY
    /\ dropped_src' = Append(dropped_src, CompletedSrc)
    /\ UNCHANGED <<parseVars, cleanVars, batchVars>>
    /\ UNCHANGED <<pdf_path, blocks, start_marker_found, pc, result, block_src>>

\* the completed block is parsed and appended to blocks
EmitBlock(line) ==
    /\ pc = "loop" /\ inside_table
    /\ ~StartsWith(Strip(line), stop_marker)
    /\ ~StartsWith(Strip(line), DELIVERY_DATE_LABEL)
    /\ waiting_for_date /\ MatchDate(Strip(line))
    /\ ~HasPage(CompletedBlock(line))
    /\ lines' = Append(lines, line)
    /\ blocks' = Append(blocks, parse_block(CompletedBlock(line)))
    /\ block_src' = Append(block_src, CompletedSrc)
    /\ current_block' = << >>
    /\ current_src' = << >>
    /\ waiting_for_date' = FALSE
    /\ UNCHANGED <<parseVars, cleanVars, batchVars>>
    /\ UNCHANGED <<pdf_path, inside_table, prev_line, start_marker_found, pc, result, dropped_src>>

\* variant: "if not blocks" instead of "if not start_marker_found"
ReturnErrorWhenEmpty ==
    /\ pc = "loop"
    /\ pc' = "done"
    /\ result' = IF blocks = << >>
                 THEN [error |-> TRUE, name |-> Basename(pdf_path), blocks |-> << >>]
                 ELSE [error |-> FALSE, name |-> EMPTY, blocks |-> blocks]
    /\ UNCHANGED <<parseVars, cleanVars, batchVars>>
    /\ UNCHANGED <<pdf_path, lines, inside_table, blocks, current_block, waiting_for_date,
                   prev_line, start_marker_found, current_src, block_src, dropped_src>>

\* after the loop: the format-mismatch error, or the blocks.  The document
\* has been read: a failure of fitz, caught by the outer "except", happens
\* before the loop and is an input of the batch loops below.
Return ==
    /\ pc = "loop"
    /\ pc' = "done"
    /\ result' = IF ~start_marker_found
                 THEN [error |-> TRUE, name |-> Basename(pdf_path), blocks |-> << >>]
                 ELSE [error |-> FALSE, name |-> EMPTY, blocks |-> blocks]
    /\ UNCHANGED <<parseVars, cleanVars, batchVars>>
    /\ UNCHANGED <<pdf_path, lines, inside_table, blocks, current_block, waiting_for_date,
                   prev_line, start_marker_found, current_src, block_src, dropped_src>>

SegNext ==
    \/ \E line \in NextLines : FindStart(line)
    \/ \E line \in NextLines : SeekStart(line)
    \/ \E line \in NextLines : StopMarker(line)
    \/ \E line \in NextLines : DeliveryLabel(line)
    \/ \E line \in NextLines : Collect(line)
    \/ \E line \in NextLines : DropPageBlock(line)
    \/ \E line \in NextLines : EmitBlock(line)
    \/ Return

Spec == SegInit /\ [][SegNext]_vars

\* ---------------------------------------------------------------------------
\* Properties of extract_item_blocks (specification Spec)
\* ---------------------------------------------------------------------------
Q_2_0 == <<"2",".","0">>

\* C1 as stated: after Scenario A the result is exactly one record with
\* itemCode 'ABC123', deliveryDate '01/02/2024', price '10.5000',
\* total '21.0000', quantity '2.0' and unitOfMeasure 'Each'.
C1_ScenarioA_AsStated ==
    (pc = "done" /\ lines = ScenarioA) =>
        /\ ~result.error
        /\ Len(result.blocks) = 1
        /\ result.blocks[1]["Item_Code"] = L_ABC123
        /\ result.blocks[1]["Delivery Date"] = L_Date
        /\ result.blocks[1]["Price"] = L_10_5000
        /\ result.blocks[1]["Total"] = L_21_0000
        /\ result.blocks[1]["Quantity"] = Q_2_0
        /\ result.blocks[1]["UoM(optional)"] = EACH

\* C1 amended: after Scenario A the result is exactly one record, with
\* deliveryDate '01/02/2024' and with itemCode, price, total, quantity and
\* unitOfMeasure empty: the block is completed by the date line, and the
\* lines after it are never part of an emitted block.
C1_ScenarioA ==
    (pc = "done" /\ lines = ScenarioA) =>
        /\ ~result.error
        /\ Len(result.blocks) = 1
        /\ result.blocks[1]["Delivery Date"] = L_Date
        /\ result.blocks[1]["Item_Code"] = EMPTY
        /\ result.blocks[1]["Price"] = EMPTY
        /\ result.blocks[1]["Total"] = EMPTY
        /\ result.blocks[1]["Quantity"] = EMPTY
        /\ result.blocks[1]["UoM(optional)"] = EMPTY

C1_Witness == pc = "done" /\ lines = ScenarioA /\ Len(result.blocks) = 1

\* the lines of the document read as stop markers: a stop marker is only
\* looked for inside the table
IsStopLine(i) == StartsWith(Strip(lines[i]), stop_marker)
SameRegion(src) ==
    \A i \in Range(src) : \A j \in Range(src) : \A m \in (i + 1)..(j - 1) : ~IsStopLine(m)

\* C2 (Scenario D): the records come in document order and every block that
\* completes, whether emitted or discarded by the page rule, is built from
\* lines of a single table region: no stop-marker line lies between two of
\* its lines.
C2_RegionsIndependent ==
    /\ \A k \in DOMAIN block_src : SameRegion(block_src[k])
    /\ \A k \in DOMAIN dropped_src : SameRegion(dropped_src[k])
    /\ \A k \in DOMAIN block_src : \A m \in DOMAIN block_src :
          k < m => \A i \in Range(block_src[k]) : \A j \in Range(block_src[m]) : i < j

\* the start marker read off the document: some line, joined to the line
\* before it and with the blanks removed, is 'Tax%Tax%'
HasStartMarker(doc) ==
    \E i \in DOMAIN doc :
        RemoveBlanks((IF i = 1 THEN EMPTY ELSE Strip(doc[i - 1])) \o Strip(doc[i])) = START_MARKER

\* C3: the returned value is the format-mismatch error, naming the document
\* and carrying no record, exactly when the document has no start marker;
\* otherwise it is the list of records.
C3_FormatMismatch ==
    pc = "done" =>
        /\ result.error <=> ~HasStartMarker(lines)
        /\ result.error => (result.blocks = << >> /\ (pdf_path = PATH_A => result.name = NAME_A)
                                                    /\ (pdf_path = PATH_B => result.name = PATH_B))
        /\ ~result.error => result.blocks = blocks

C3_Witness ==
    /\ pc = "done" /\ HasStartMarker(lines)
    /\ ~result.error /\ result.blocks = << >> /\ dropped_src # << >>

\* the step reads a date line that completes a block containing 'page'
PageBlockCompletes ==
    /\ pc = "loop" /\ Len(lines') = Len(lines) + 1
    /\ inside_table /\ waiting_for_date
    /\ MatchDate(Strip(lines'[Len(lines')]))
    /\ HasPage(Append(current_block, Strip(lines'[Len(lines')])))

\* C4: a completed block containing 'page' appends no record, empties the
\* buffer and leaves the segmenter seeking a start marker; and no line of a
\* discarded block is part of an emitted block.
C4_PageBlockDropped ==
    /\ [](\A k \in DOMAIN block_src : \A d \in DOMAIN dropped_src :
             Range(block_src[k]) \cap Range(dropped_src[d]) = {})
    /\ [][PageBlockCompletes =>
            /\ blocks' = blocks
            /\ current_block' = << >>
            /\ ~inside_table' /\ ~waiting_for_date']_vars

C4_Witness ==
    /\ dropped_src # << >> /\ block_src # << >>
    /\ \E i \in Range(block_src[Len(block_src)]) : \A j \in Range(dropped_src[1]) : j < i

\* C10: the segmenter is in one of SEEKING_START, IN_TABLE_COLLECTING and
\* IN_TABLE_AWAITING_DATE: a date is awaited only inside a table.
C10_ThreeStates == waiting_for_date => inside_table

\* C11: the deliveryDate of every emitted record begins with a
\* d{1,2}/d{1,2}/d{4} date token and is the date line that completed its
\* block, whatever lies between the first 'Delivery Date:' line and that line.
C11_DeliveryDateIsDate ==
    \A k \in DOMAIN blocks :
        /\ MatchDate(blocks[k]["Delivery Date"])
        /\ blocks[k]["Delivery Date"] = Strip(lines[block_src[k][Len(block_src[k])]])

\* ---------------------------------------------------------------------------
\* parse_block on its own (specification ParseSpec)
\* ---------------------------------------------------------------------------
N_9_5 == <<"9",".","5">>
N_10_25 == <<"1","0",".","2","5">>
N_0_00 == <<"0",".","0","0">>
N_1_5 == <<"1",".","5">>
N_1_50 == <<"1",".","5","0">>
L_Seven == <<"7">>
L_Bracket == <<"B","r","a","c","k","e","t"," ","M","o","u","n","t">>
L_EachFrag == <<"E","a","c","h"," ","2",".","5","0">>
L_Rev == <<"R","e","v"," ","A","1">>

ParseVocabulary == {N_9_5, N_10_25, N_0_00, ZERO_LINE, N_1_5, N_1_50, EACH, ITEM_CODE_LABEL}

RECURSIVE SeqsUpTo(_, _)
SeqsUpTo(S, n) ==
    IF n = 0 THEN {<< >>}
    ELSE SeqsUpTo(S, n - 1) \cup {Append(q, x) : q \in {r \in SeqsUpTo(S, n - 1) : Len(r) = n - 1}, x \in S}

\* blocks as the segmenter hands them over: stripped lines
ScenarioBlocks ==
    { <<L_Seven, L_Bracket, L_EachFrag, L_Bracket, ITEM_CODE_LABEL, L_ABC123, L_10_5000, L_21_0000,
        EACH, DELIVERY_DATE_LABEL, L_Date, L_Date>>,
      <<L_Rev, L_Bracket, ITEM_CODE_LABEL, L_ABC123, N_0_00, L_21_0000, DELIVERY_DATE_LABEL, L_Date2, L_Date2>> }

ParseBlocks == SeqsUpTo(ParseVocabulary, MaxBlockLen) \cup ScenarioBlocks

ParseInit ==
    /\ block_lines \in ParseBlocks
    /\ data = NoData
    /\ ppc = "call"
    /\ SegOff /\ CleanOff /\ BatchOff

Parse ==
    /\ ppc = "call"
    /\ data' = parse_block(block_lines)
    /\ ppc' = "done"
    /\ UNCHANGED <<block_lines, segVars, cleanVars, batchVars>>

ParseNext == Parse

ParseSpec == ParseInit /\ [][ParseNext]_vars

\* q is the str() of a float with at most four decimals: digits, a dot and
\* one to four digits, no trailing zero except in 'd.0', no leading zero
\* except in '0.d'
IsFloatStr4(q) ==
    /\ MatchFloat(q)
    /\ LET d == CHOOSE i \in DOMAIN q : q[i] = "."
       IN /\ Len(q) - d <= 4
          /\ (q[Len(q)] = "0" => Len(q) - d = 1)
          /\ (q[1] = "0" => d = 2)

\* the value of q is within half a ten-thousandth of total / price
IsQuotientRounded4(q, total, price) ==
    LET v == Float(q)
        v4 == v.n * Pow10(4 - v.e)
        diff == v4 * price.n * Pow10(total.e) - 10000 * total.n * Pow10(price.e)
    IN 2 * (IF diff < 0 THEN 0 - diff ELSE diff) <= price.n * Pow10(total.e)

\* C5: with price and total both non-empty and price non-zero, quantity is
\* the string form of total / price rounded to four decimals; with price or
\* total empty, or price numerically zero, quantity is empty.
C5_Quantity ==
    ppc = "done" =>
        IF data["Price"] # EMPTY /\ data["Total"] # EMPTY /\ ~FloatIsZero(Float(data["Price"]))
        THEN /\ IsFloatStr4(data["Quantity"])
             /\ IsQuotientRounded4(data["Quantity"], Float(data["Total"]), Float(data["Price"]))
        ELSE data["Quantity"] = EMPTY

C5_Witness ==
    /\ ppc = "done"
    /\ data["Price"] = N_9_5 /\ data["Total"] = N_10_25
    /\ data["Quantity"] = <<"1",".","0","7","8","9">>

\* the candidate lines of a block, by position
Candidates(blk) == {i \in DOMAIN blk : MatchFloat(blk[i]) /\ blk[i] # ZERO_LINE}

\* C9: without a candidate price and total are empty; otherwise price is the
\* first candidate and total is the first candidate of greatest numeric value.
C9_PriceTotal ==
    ppc = "done" =>
        LET C == Candidates(block_lines)
        IN IF C = {} THEN data["Price"] = EMPTY /\ data["Total"] = EMPTY
           ELSE /\ data["Price"] = block_lines[FirstOf(C)]
                /\ \E i \in C :
                      /\ data["Total"] = block_lines[i]
                      /\ \A j \in C : ~FloatLess(Float(block_lines[i]), Float(block_lines[j]))
                      /\ \A j \in C : j < i => FloatLess(Float(block_lines[j]), Float(block_lines[i]))
                      /\ \A j \in C : j < i => block_lines[j] # block_lines[i]
                /\ (N_10_25 \in Range(block_lines) /\ Range(block_lines) \subseteq {N_10_25, N_9_5, EACH}
                      => data["Total"] = N_10_25)

C9_Witness ==
    /\ ppc = "done"
    /\ block_lines = <<N_1_5, N_0_00, N_1_50, N_1_5>>
    /\ data["Price"] = N_1_5 /\ data["Total"] = N_1_5

\* C12: a non-empty price comes with a total that is numerically at least
\* the price, and a non-empty quantity is numerically at least 1.
C12_TotalAtLeastPrice ==
    ppc = "done" =>
        /\ data["Price"] # EMPTY =>
              /\ data["Total"] # EMPTY
              /\ ~FloatLess(Float(data["Total"]), Float(data["Price"]))
        /\ data["Quantity"] # EMPTY =>
              /\ MatchFloat(data["Quantity"])
              /\ ~FloatLess(Float(data["Quantity"]), [n |-> 1, e |-> 0])

\* the price is not the least candidate, and the quantity was computed
C12_Witness ==
    /\ ppc = "done"
    /\ data["Quantity"] # EMPTY
    /\ FloatLess(Float(data["Price"]), Float(data["Total"]))
    /\ \E i \in Candidates(block_lines) : FloatLess(Float(block_lines[i]), Float(data["Price"]))

\* ---------------------------------------------------------------------------
\* clean_description applied to its own output (specification CleanSpec)
\* ---------------------------------------------------------------------------
W_A == <<"A">>
W_a == <<"a">>
W_1_5 == <<"1",".","5">>
D_ScenarioC == <<"B","r","a","c","k","e","t"," ","M","o","u","n","t"," ","E","a","c","h"," ","2",".","5","0"," ","B","r","a","c","k","e","t"," ","M","o","u","n","t">>
D_Padded == <<" "," ","A"," "," ","E","a","c","h","\t","a"," ">>

CleanWords == {W_A, W_a, EACH, W_1_5}
CleanInputs == {Join(ws) : ws \in SeqsUpTo(CleanWords, MaxWords)} \cup {D_ScenarioC, D_Padded}

CleanInit ==
    /\ desc \in CleanInputs
    /\ cleaned = EMPTY
    /\ recleaned = EMPTY
    /\ cpc = "call"
    /\ SegOff /\ ParseOff /\ BatchOff

Clean ==
    /\ cpc = "call"
    /\ cleaned' = clean_description(desc)
    /\ cpc' = "once"
    /\ UNCHANGED <<desc, recleaned, segVars, parseVars, batchVars>>

CleanAgain ==
    /\ cpc = "once"
    /\ recleaned' = clean_description(cleaned)
    /\ cpc' = "twice"
    /\ UNCHANGED <<desc, cleaned, segVars, parseVars, batchVars>>

CleanNext == Clean \/ CleanAgain

CleanSpec == CleanInit /\ [][CleanNext]_vars

\* C6: cleaning is idempotent: cleaning the cleaned description returns it
\* unchanged.
C6_Idempotent == cpc = "twice" => recleaned = cleaned

\* ---------------------------------------------------------------------------
\* The batch loops: extractor.main and streamlit_app.process_files
\* (specification BatchSpec)
\* ---------------------------------------------------------------------------
PO2 == <<"P","O","2">>
PO10 == <<"P","O","1","0">>
NET30 == <<"N","e","t"," ","3","0">>
ERR == <<"e","r","r">>

\* what extract_po_info returns: the header dict, or {"error": ...}
Header(number, date) ==
    [k \in {"Document Number", "Reference", "Payment Term", "Document Date"} |->
        CASE k = "Document Number" -> number
          [] k = "Document Date" -> date
          [] k = "Payment Term" -> NET30
          [] OTHER -> EMPTY]
HeaderError == [k \in {"error"} |-> ERR]
Headers == {HeaderError, Header(PO10, L_Date), Header(PO2, L_Date2), Header(PO2, EMPTY)}

\* what extract_item_blocks returns: the list of blocks, or {"error": ...}
ItemA == parse_block(<<ITEM_CODE_LABEL, L_ABC123, L_10_5000, L_21_0000, EACH, DELIVERY_DATE_LABEL, L_Date, L_Date>>)
ItemB == parse_block(<<DELIVERY_DATE_LABEL, L_Date2, L_Date2>>)
ItemResults == { [error |-> TRUE, name |-> NAME_A, blocks |-> << >>],
                 [error |-> FALSE, name |-> EMPTY, blocks |-> << >>],
                 [error |-> FALSE, name |-> EMPTY, blocks |-> <<ItemA, ItemB>>] }

Documents == [po_info : Headers, item_blocks : ItemResults]

\* d.get(key, "")
Get(d, key) == IF key \in DOMAIN d THEN d[key] ELSE EMPTY

Columns == {"Document Number", "Reference", "Item_Code", "PO_issue Date", "Delivery Date",
            "Description", "Item Details", "UoM(optional)", "Quantity", "Price", "Total",
            "Payment Term"}

Row(po_info, block) ==
    [k \in Columns |->
        CASE k = "PO_issue Date" -> Get(po_info, "Document Date")
          [] k \in {"Document Number", "Reference", "Payment Term"} -> Get(po_info, k)
          [] OTHER -> Get(block, k)]

\* variant: the rows are built without the check of the document date
RowsOfUnchecked(po_info, item_blocks) ==
    [i \in DOMAIN item_blocks |-> Row(po_info, item_blocks[i])]

\* "for block in item_blocks": a block is skipped when the document date is
\* empty, otherwise its row is appended
RowsOf(po_info, item_blocks) ==
    IF Get(po_info, "Document Date") = EMPTY THEN << >>
    ELSE [i \in DOMAIN item_blocks |-> Row(po_info, item_blocks[i])]

\* df["Document Number"].str.extract(r"(\d+)").astype(float): the first run of
\* digits as a number, NaN without a digit
SortKey(row) ==
    LET s == row["Document Number"]
        ds == {i \in DOMAIN s : IsDigit(s[i])}
        a == FirstOf(ds)
        b == IF \E j \in ds : j >= a /\ (j + 1) \notin ds
             THEN CHOOSE j \in ds : j >= a /\ (j + 1) \notin ds /\ \A m \in a..j : m \in ds
             ELSE 0
    IN IF ds = {} THEN [nan |-> TRUE, v |-> 0] ELSE [nan |-> FALSE, v |-> IntVal(SubSeq(s, a, b))]

\* ascending, NaN last
KeyLeq(x, y) == y.nan \/ (~x.nan /\ x.v <= y.v)

RemoveAt(q, i) == SubSeq(q, 1, i - 1) \o SubSeq(q, i + 1, Len(q))

\* df.sort_values(by="Document Number Sort"): the default sort is not stable,
\* so every arrangement in ascending order of the key is a possible outcome
RECURSIVE SortedArrangements(_)
SortedArrangements(rows) ==
    IF rows = << >> THEN {<< >>}
    ELSE LET least == {i \in DOMAIN rows : \A j \in DOMAIN rows : KeyLeq(SortKey(rows[i]), SortKey(rows[j]))}
         IN UNION {{<<rows[i]>> \o t : t \in SortedArrangements(RemoveAt(rows, i))} : i \in least}

BatchInit ==
    /\ driver \in {"main", "process_files"}
    /\ pdf_files \in SeqsUpTo(Documents, MaxDocs)
    /\ file_idx = 1
    /\ all_data = << >>
    /\ row_src = << >>
    /\ written = << >>
    /\ bpc = "loop"
    /\ SegOff /\ ParseOff /\ CleanOff

InLoop == bpc = "loop" /\ file_idx <= Len(pdf_files)
Skip ==
    /\ file_idx' = file_idx + 1
    /\ UNCHANGED <<driver, pdf_files, all_data, row_src, written, bpc, segVars, parseVars, cleanVars>>
AppendRows ==
    LET rows == RowsOf(pdf_files[file_idx].po_info, pdf_files[file_idx].item_blocks.blocks)
    IN /\ all_data' = all_data \o rows
       /\ row_src' = row_src \o [i \in DOMAIN rows |-> file_idx]
       /\ file_idx' = file_idx + 1
       /\ UNCHANGED <<driver, pdf_files, written, bpc, segVars, parseVars, cleanVars>>

\* main: the header could not be read
MainHeaderError ==
    /\ driver = "main" /\ InLoop
    /\ "error" \in DOMAIN pdf_files[file_idx].po_info
    /\ Skip

\* variant: "break" instead of "continue"
MainItemsErrorBreak ==
    /\ driver = "main" /\ InLoop
    /\ "error" \notin DOMAIN pdf_files[file_idx].po_info
    /\ pdf_files[file_idx].item_blocks.error
    /\ file_idx' = Len(pdf_files) + 1
    /\ UNCHANGED <<driver, pdf_files, all_data, row_src, written, bpc, segVars, parseVars, cleanVars>>

\* main: extract_item_blocks returned an error
MainItemsError ==
    /\ driver = "main" /\ InLoop
    /\ "error" \notin DOMAIN pdf_files[file_idx].po_info
    /\ pdf_files[file_idx].item_blocks.error
    /\ Skip

\* main: the rows of the document are appended
MainRows ==
    /\ driver = "main" /\ InLoop
    /\ "error" \notin DOMAIN pdf_files[file_idx].po_info
    /\ ~pdf_files[file_idx].item_blocks.error
    /\ AppendRows

\* main, after the loop: sort by document number and write the CSV, or
\* write nothing when there is no row
MainWrite ==
    /\ driver = "main" /\ bpc = "loop" /\ file_idx > Len(pdf_files)
    /\ written' \in SortedArrangements(all_data)
    /\ bpc' = "done"
    /\ UNCHANGED <<driver, pdf_files, file_idx, all_data, row_src, segVars, parseVars, cleanVars>>

\* process_files: extract_item_blocks returned an error
AppItemsError ==
    /\ driver = "process_files" /\ InLoop
    /\ pdf_files[file_idx].item_blocks.error
    /\ Skip

\* process_files: the rows of the document are appended; po_info is not
\* checked for an error
AppRows ==
    /\ driver = "process_files" /\ InLoop
    /\ ~pdf_files[file_idx].item_blocks.error
    /\ AppendRows

\* process_files, after the loop: the rows are returned in the order of all_data
AppReturn ==
    /\ driver = "process_files" /\ bpc = "loop" /\ file_idx > Len(pdf_files)
    /\ written' = all_data
    /\ bpc' = "done"
    /\ UNCHANGED <<driver, pdf_files, file_idx, all_data, row_src, segVars, parseVars, cleanVars>>

BatchNext ==
    \/ MainHeaderError
    \/ MainItemsError
    \/ MainRows
    \/ MainWrite
    \/ AppItemsError
    \/ AppRows
    \/ AppReturn

BatchSpec == BatchInit /\ [][BatchNext]_vars

\* C7: no row has an empty PO_issue Date, and no row comes from a document
\* whose header has an empty document date, in main and in process_files.
C7_NoEmptyIssueDate ==
    /\ \A k \in DOMAIN all_data :
          /\ all_data[k]["PO_issue Date"] # EMPTY
          /\ Get(pdf_files[row_src[k]].po_info, "Document Date") # EMPTY
    /\ \A k \in DOMAIN written : written[k]["PO_issue Date"] # EMPTY

C7_Witness ==
    /\ bpc = "done" /\ written # << >>
    /\ \E i \in DOMAIN pdf_files :
          /\ "error" \notin DOMAIN pdf_files[i].po_info
          /\ pdf_files[i].po_info["Document Date"] = EMPTY
          /\ pdf_files[i].item_blocks.blocks # << >>

\* the rows a document contributes when it is the only document
Reported(doc) == doc.item_blocks.error \/ "error" \in DOMAIN doc.po_info
Contribution(doc) ==
    IF Reported(doc) \/ doc.po_info["Document Date"] = EMPTY THEN << >>
    ELSE [i \in DOMAIN doc.item_blocks.blocks |-> Row(doc.po_info, doc.item_blocks.blocks[i])]

RECURSIVE Contributions(_)
Contributions(docs) ==
    IF docs = << >> THEN << >> ELSE Contribution(Head(docs)) \o Contributions(Tail(docs))

Count(q, x) == Cardinality({i \in DOMAIN q : q[i] = x})
IsPermutation(p, q) == Len(p) = Len(q) /\ \A i \in DOMAIN q : Count(p, q[i]) = Count(q, q[i])

====
